---------------------------- MODULE Spec2Model ----------------------------
(***************************************************************************)
(* Model of the managed-cluster service of cluster-api-provider-azure      *)
(* (cloud/services/managedclusters/managedclusters.go): the four exposed   *)
(* operations Get, GetCredentials, Reconcile and Delete over a provider    *)
(* client, with the derivation of the provider resource that Reconcile     *)
(* performs inline.                                                        *)
(*                                                                         *)
(* Go strings that the code inspects or assembles (CIDRs, network policy,  *)
(* names, error messages) are sequences of one-character strings, so that  *)
(* parsing, case folding, formatting and concatenation are computed and    *)
(* not assumed.  A Go pointer that may be nil is a sequence of length 0    *)
(* (nil) or 1 (the pointee).                                               *)
(***************************************************************************)
EXTENDS Integers, Sequences, FiniteSets, TLC

----------------------------------------------------------------------------
(* Characters and numbers                                                  *)

DecDigits == <<"0","1","2","3","4","5","6","7","8","9">>
HexLower  == <<"a","b","c","d","e","f">>
HexUpper  == <<"A","B","C","D","E","F">>
UpperCase == <<"A","B","C","D","E","F","G","H","I","J","K","L","M",
               "N","O","P","Q","R","S","T","U","V","W","X","Y","Z">>
LowerCase == <<"a","b","c","d","e","f","g","h","i","j","k","l","m",
               "n","o","p","q","r","s","t","u","v","w","x","y","z">>

IndexIn(c, tbl) == CHOOSE k \in 1..Len(tbl) : tbl[k] = c
OccursIn(c, tbl) == \E k \in 1..Len(tbl) : tbl[k] = c

IsDigit(c) == OccursIn(c, DecDigits)
DigitVal(c) == IndexIn(c, DecDigits) - 1

\* s[from:] of Go, from counted from 0
Drop(s, from) == SubSeq(s, from + 1, Len(s))

\* strings.Contains
Contains(s, sub) ==
    \E k \in 0..(Len(s) - Len(sub)) : SubSeq(s, k + 1, k + Len(sub)) = sub

\* bytealg.IndexByteString: index (from 0) of the first c in s, -1 if none
IndexByteString(s, c) ==
    IF \E k \in 1..Len(s) : s[k] = c
    THEN (CHOOSE k \in 1..Len(s) : s[k] = c /\ \A j \in 1..(k-1) : s[j] # c) - 1
    ELSE -1

\* unicode.SimpleFold restricted to the ASCII letters: the fold class of a
\* character, represented by its lower-case member
FoldASCII(c) == IF OccursIn(c, UpperCase) THEN LowerCase[IndexIn(c, UpperCase)] ELSE c

\* strings.EqualFold on ASCII input
EqualFold(s, t) ==
    /\ Len(s) = Len(t)
    /\ \A k \in 1..Len(s) : FoldASCII(s[k]) = FoldASCII(t[k])

RECURSIVE BitAnd(_, _, _)
\* a & b on the low `bits` bits
BitAnd(a, b, bits) ==
    IF bits = 0 THEN 0
    ELSE (IF a % 2 = 1 /\ b % 2 = 1 THEN 1 ELSE 0) + 2 * BitAnd(a \div 2, b \div 2, bits - 1)

----------------------------------------------------------------------------
(* Package net: ParseCIDR and IP.String, called at lines 142 and 151       *)

big == 16777215          \* 0xFFFFFF
IPv4len == 4
IPv6len == 16
NilIP == <<>>
v4InV6Prefix == <<0,0,0,0,0,0,0,0,0,0,255,255>>

RECURSIVE dtoiLoop(_, _, _)
dtoiLoop(s, i, n) ==
    IF i < Len(s) /\ IsDigit(s[i+1])
    THEN LET n2 == n * 10 + DigitVal(s[i+1])
         IN  IF n2 >= big THEN [n |-> big, i |-> i, ok |-> FALSE]
             ELSE dtoiLoop(s, i + 1, n2)
    ELSE IF i = 0 THEN [n |-> 0, i |-> 0, ok |-> FALSE]
    ELSE [n |-> n, i |-> i, ok |-> TRUE]

\* decimal to integer: value, characters consumed, success
dtoi(s) == dtoiLoop(s, 0, 0)

IsHexDigit(c) == IsDigit(c) \/ OccursIn(c, HexLower) \/ OccursIn(c, HexUpper)
HexVal(c) == IF IsDigit(c) THEN DigitVal(c)
             ELSE IF OccursIn(c, HexLower) THEN IndexIn(c, HexLower) + 9
             ELSE IndexIn(c, HexUpper) + 9

RECURSIVE xtoiLoop(_, _, _)
xtoiLoop(s, i, n) ==
    IF i < Len(s) /\ IsHexDigit(s[i+1])
    THEN LET n2 == n * 16 + HexVal(s[i+1])
         IN  IF n2 >= big THEN [n |-> 0, i |-> i, ok |-> FALSE]
             ELSE xtoiLoop(s, i + 1, n2)
    ELSE IF i = 0 THEN [n |-> 0, i |-> 0, ok |-> FALSE]
    ELSE [n |-> n, i |-> i, ok |-> TRUE]

\* hexadecimal to integer
xtoi(s) == xtoiLoop(s, 0, 0)

\* net.IPv4: the 16-byte form of an IPv4 address
IPv4(a, b, c, d) == v4InV6Prefix \o <<a, b, c, d>>

RECURSIVE parseIPv4Loop(_, _, _)
RECURSIVE parseIPv4Field(_, _, _, _)
parseIPv4Loop(s, i, p) ==
    IF i = IPv4len
    THEN IF Len(s) # 0 THEN NilIP ELSE IPv4(p[1], p[2], p[3], p[4])
    ELSE IF Len(s) = 0 THEN NilIP
    ELSE IF i > 0 /\ s[1] # "." THEN NilIP
    ELSE IF i > 0 THEN parseIPv4Field(Tail(s), i, p, dtoi(Tail(s)))
    ELSE parseIPv4Field(s, i, p, dtoi(s))

\* one field of the address, r being the number read at the head of s
parseIPv4Field(s, i, p, r) ==
    IF ~r.ok \/ r.n > 255 THEN NilIP
    ELSE parseIPv4Loop(Drop(s, r.i), i + 1, Append(p, r.n))

\* dotted-decimal IPv4 address, NilIP when malformed.  (Go 1.17 and later
\* also refuse a field with a leading zero; no input used here has one.)
parseIPv4(s) == parseIPv4Loop(s, 0, <<>>)

\* ip with the bytes at Go indexes i.. replaced by bs
SetBytes(ip, i, bs) ==
    [k \in 1..Len(ip) |-> IF k > i /\ k <= i + Len(bs) THEN bs[k - i] ELSE ip[k]]

parseIPv6Fail == [ok |-> FALSE, s |-> <<>>, i |-> 0, ip |-> NilIP, ellipsis |-> -1]
parseIPv6Exit(s, i, ip, ellipsis) ==
    [ok |-> TRUE, s |-> s, i |-> i, ip |-> ip, ellipsis |-> ellipsis]

RECURSIVE parseIPv6Loop(_, _, _, _)
RECURSIVE parseIPv6Chunk(_, _, _, _, _)
RECURSIVE parseIPv6Colon(_, _, _, _)

\* the loop "parsing hex numbers followed by colon"; yields the state at its exit
parseIPv6Loop(s, i, ip, ellipsis) ==
    IF ~(i < IPv6len) THEN parseIPv6Exit(s, i, ip, ellipsis)
    ELSE parseIPv6Chunk(s, i, ip, ellipsis, xtoi(s))

\* trailing IPv4: ip4 is parseIPv4 of the rest
parseIPv6TrailingIPv4(i, ip, ellipsis, ip4) ==
    IF ellipsis < 0 /\ i # IPv6len - IPv4len THEN parseIPv6Fail
    ELSE IF i + IPv4len > IPv6len THEN parseIPv6Fail
    ELSE IF ip4 = NilIP THEN parseIPv6Fail
    ELSE parseIPv6Exit(<<>>, i + IPv4len, SetBytes(ip, i, SubSeq(ip4, 13, 16)), ellipsis)

\* one pass of the loop body, r being the hex number read at the head of s
parseIPv6Chunk(s, i, ip, ellipsis, r) ==
    IF ~r.ok \/ r.n > 65535 THEN parseIPv6Fail
    ELSE IF r.i < Len(s) /\ s[r.i + 1] = "."
    THEN parseIPv6TrailingIPv4(i, ip, ellipsis, parseIPv4(s))
    ELSE parseIPv6Colon(Drop(s, r.i), i + 2,
                        SetBytes(ip, i, <<r.n \div 256, r.n % 256>>), ellipsis)

\* the rest of the loop body, after the 16-bit chunk is saved
parseIPv6Colon(s, i, ip, ellipsis) ==
    IF Len(s) = 0 THEN parseIPv6Exit(s, i, ip, ellipsis)
    ELSE IF s[1] # ":" \/ Len(s) = 1 THEN parseIPv6Fail
    ELSE IF s[2] = ":"
    THEN IF ellipsis >= 0 THEN parseIPv6Fail
         ELSE IF Len(s) = 2 THEN parseIPv6Exit(<<>>, i, ip, i)
         ELSE parseIPv6Loop(Drop(s, 2), i, ip, i)
    ELSE parseIPv6Loop(Tail(s), i, ip, ellipsis)

ZeroIP == [k \in 1..IPv6len |-> 0]

\* the tail of parseIPv6: whole string used, ellipsis expanded
parseIPv6Finish(st) ==
    IF ~st.ok THEN NilIP
    ELSE IF Len(st.s) # 0 THEN NilIP
    ELSE IF st.i < IPv6len
    THEN IF st.ellipsis < 0 THEN NilIP
         ELSE LET n == IPv6len - st.i
              IN  [k \in 1..IPv6len |->
                      LET j == k - 1
                      IN  IF j < st.ellipsis THEN st.ip[k]
                          ELSE IF j < st.ellipsis + n THEN 0
                          ELSE st.ip[k - n]]
    ELSE IF st.ellipsis >= 0 THEN NilIP
    ELSE st.ip

\* IPv6 literal (RFC 4291), NilIP when malformed
parseIPv6(s) ==
    IF Len(s) >= 2 /\ s[1] = ":" /\ s[2] = ":"
    THEN IF Len(s) = 2 THEN ZeroIP
         ELSE parseIPv6Finish(parseIPv6Loop(Drop(s, 2), 0, ZeroIP, 0))
    ELSE parseIPv6Finish(parseIPv6Loop(s, 0, ZeroIP, -1))

\* net.CIDRMask: `ones` 1 bits followed by 0s, `bits` bits long
CIDRMask(ones, bits) ==
    [k \in 1..(bits \div 8) |->
        LET n == ones - 8 * (k - 1)
        IN  IF n >= 8 THEN 255
            ELSE IF n <= 0 THEN 0
            ELSE 256 - 2 ^ (8 - n)]

\* IP.To4: the 4-byte form, NilIP if ip is not an IPv4 address
To4(ip) ==
    IF Len(ip) = IPv4len THEN ip
    ELSE IF Len(ip) = IPv6len /\ SubSeq(ip, 1, 12) = v4InV6Prefix THEN SubSeq(ip, 13, 16)
    ELSE NilIP

\* IP.Mask
Mask(ip, mask) ==
    LET m == IF Len(mask) = IPv6len /\ Len(ip) = IPv4len
                /\ \A k \in 1..12 : mask[k] = 255
             THEN SubSeq(mask, 13, 16) ELSE mask
        p == IF Len(m) = IPv4len /\ Len(ip) = IPv6len
                /\ SubSeq(ip, 1, 12) = v4InV6Prefix
             THEN SubSeq(ip, 13, 16) ELSE ip
    IN  IF Len(p) # Len(m) THEN NilIP
        ELSE [k \in 1..Len(p) |-> BitAnd(p[k], m[k], 8)]

invalidCIDRAddress == <<"i","n","v","a","l","i","d"," ","C","I","D","R"," ","a","d","d","r","e","s","s",":"," ">>

\* an error value: dynamic type, HTTP status (0 when it has none), message,
\* and the error it wraps (for errors.Is / errors.Cause), if any
Error(type, status, msg, cause) ==
    [type |-> type, status |-> status, msg |-> msg, cause |-> cause]

NoNet == [IP |-> NilIP, Mask |-> <<>>]

ParseCIDRError(s) ==
    [ip |-> NilIP, net |-> NoNet,
     err |-> <<Error("*net.ParseError", 0, invalidCIDRAddress \o s, <<>>)>>]

\* the end of ParseCIDR: ip and iplen from the address, r = dtoi(mask)
ParseCIDRMask(s, ip, iplen, mask, r) ==
    IF ip = NilIP \/ ~r.ok \/ r.i # Len(mask) \/ r.n < 0 \/ r.n > 8 * iplen
    THEN ParseCIDRError(s)
    ELSE [ip |-> ip,
          net |-> [IP |-> Mask(ip, CIDRMask(r.n, 8 * iplen)),
                   Mask |-> CIDRMask(r.n, 8 * iplen)],
          err |-> <<>>]

\* the middle of ParseCIDR: ip4 = parseIPv4(addr), IPv6 tried when it is nil
ParseCIDRAddr(s, addr, mask, ip4) ==
    IF ip4 = NilIP
    THEN ParseCIDRMask(s, parseIPv6(addr), IPv6len, mask, dtoi(mask))
    ELSE ParseCIDRMask(s, ip4, IPv4len, mask, dtoi(mask))

\* the start of ParseCIDR: i = index of the slash
ParseCIDRSplit(s, i) ==
    IF i < 0 THEN ParseCIDRError(s)
    ELSE ParseCIDRAddr(s, SubSeq(s, 1, i), Drop(s, i + 1), parseIPv4(SubSeq(s, 1, i)))

\* net.ParseCIDR: the address as written, the network it implies, an error
ParseCIDR(s) == ParseCIDRSplit(s, IndexByteString(s, "/"))

RECURSIVE uitoa(_)
\* decimal text of a non-negative integer
uitoa(n) == IF n < 10 THEN <<DecDigits[n + 1]>>
            ELSE uitoa(n \div 10) \o <<DecDigits[(n % 10) + 1]>>

HexDigitChar(d) == IF d < 10 THEN DecDigits[d + 1] ELSE HexLower[d - 9]

RECURSIVE appendHex(_)
\* lower-case hexadecimal text without leading zeros
appendHex(n) == IF n < 16 THEN <<HexDigitChar(n)>>
                ELSE appendHex(n \div 16) \o <<HexDigitChar(n % 16)>>

RECURSIVE ZeroRunEnd(_, _)
\* the inner loop of IP.String: first j >= i (even) whose 16-bit group is not 0
ZeroRunEnd(p, j) ==
    IF j < IPv6len /\ p[j + 1] = 0 /\ p[j + 2] = 0 THEN ZeroRunEnd(p, j + 2) ELSE j

RECURSIVE LongestZeroRun(_, _, _, _)
\* the outer loop of IP.String: [e0, e1) is the longest run of zero groups
LongestZeroRun(p, i, e0, e1) ==
    IF ~(i < IPv6len) THEN [e0 |-> e0, e1 |-> e1]
    ELSE LET j == ZeroRunEnd(p, i)
         IN  IF j > i /\ j - i > e1 - e0
             THEN LongestZeroRun(p, j + 2, i, j)
             ELSE LongestZeroRun(p, i + 2, e0, e1)

RECURSIVE PrintGroups(_, _, _, _)
PrintGroups(p, i, e0, e1) ==
    IF ~(i < IPv6len) THEN <<>>
    ELSE IF i = e0
    THEN IF e1 >= IPv6len THEN <<":", ":">>
         ELSE <<":", ":">> \o appendHex(p[e1 + 1] * 256 + p[e1 + 2])
                 \o PrintGroups(p, e1 + 2, e0, e1)
    ELSE (IF i > 0 THEN <<":">> ELSE <<>>)
            \o appendHex(p[i + 1] * 256 + p[i + 2])
            \o PrintGroups(p, i + 2, e0, e1)

\* the IPv6 branch of IP.String, [e.e0, e.e1) being the longest run of zeros
StringIPv6(ip, e) ==
    IF e.e1 - e.e0 <= 2 THEN PrintGroups(ip, 0, -1, -1)
    ELSE PrintGroups(ip, 0, e.e0, e.e1)

\* the IPv4 branch of IP.String
StringIPv4(p4) ==
    uitoa(p4[1]) \o <<".">> \o uitoa(p4[2]) \o <<".">>
        \o uitoa(p4[3]) \o <<".">> \o uitoa(p4[4])

\* IP.String
String(ip) ==
    IF Len(ip) = 0 THEN <<"<","n","i","l",">">>
    ELSE IF Len(To4(ip)) = IPv4len THEN StringIPv4(To4(ip))
    ELSE StringIPv6(ip, LongestZeroRun(ip, 0, -1, -1))

----------------------------------------------------------------------------
(* Errors                                                                  *)

RECURSIVE Is(_, _)
\* errors.Is / errors.Cause: target is err or is reachable through its causes
Is(err, target) ==
    \/ err = target
    \/ err.cause # <<>> /\ Is(err.cause[1], target)

\* context.Canceled and context.DeadlineExceeded, as the outbound call yields them
Canceled ==
    Error("*errors.errorString", 0,
          <<"c","o","n","t","e","x","t"," ","c","a","n","c","e","l","e","d">>, <<>>)
DeadlineExceeded ==
    Error("context.deadlineExceededError", 0,
          <<"c","o","n","t","e","x","t"," ","d","e","a","d","l","i","n","e"," ","e","x","c","e","e","d","e","d">>, <<>>)
\* the provider's answers "no such resource" (HTTP 404) and "conflict" (HTTP 409)
NotFound ==
    Error("autorest.DetailedError", 404,
          <<"r","e","s","o","u","r","c","e"," ","n","o","t"," ","f","o","u","n","d">>, <<>>)
Conflict ==
    Error("autorest.DetailedError", 409, <<"c","o","n","f","l","i","c","t">>, <<>>)

ProviderErrors == {Canceled, DeadlineExceeded, NotFound, Conflict}

\* azure.ResourceNotFound: the detectable "resource not found" variant
ResourceNotFound(err) == err.type = "autorest.DetailedError" /\ err.status = 404

\* the text the verb %#+v prints for an error value (fields of DetailedError
\* other than the status code elided)
GoSyntax(err) ==
    IF err.type = "*errors.errorString"
    THEN <<"&","e","r","r","o","r","s",".","e","r","r","o","r","S","t","r","i","n","g","{","s",":","\"">>
            \o err.msg \o <<"\"","}">>
    ELSE IF err.type = "context.deadlineExceededError"
    THEN <<"c","o","n","t","e","x","t",".","d","e","a","d","l","i","n","e","E","x","c","e","e","d","e","d","E","r","r","o","r","{","}">>
    ELSE <<"a","u","t","o","r","e","s","t",".","D","e","t","a","i","l","e","d","E","r","r","o","r","{","S","t","a","t","u","s","C","o","d","e",":">>
            \o uitoa(err.status) \o <<"}">>

\* errors.New("expected managed cluster specification")
expectedSpecification ==
    Error("*errors.fundamental", 0,
          <<"e","x","p","e","c","t","e","d"," ","m","a","n","a","g","e","d"," ","c","l","u","s","t","e","r"," ","s","p","e","c","i","f","i","c","a","t","i","o","n">>,
          <<>>)

\* fmt.Errorf("failed to parse service cidr: %w", err)
failedToParseServiceCidr(err) ==
    Error("*fmt.wrapError", 0,
          <<"f","a","i","l","e","d"," ","t","o"," ","p","a","r","s","e"," ","s","e","r","v","i","c","e"," ","c","i","d","r",":"," ">>
            \o err.msg,
          <<err>>)

\* fmt.Errorf("invalid network policy: '%s'. Allowed options are 'calico' and 'azure'", policy)
invalidNetworkPolicy(policy) ==
    Error("*errors.errorString", 0,
          <<"i","n","v","a","l","i","d"," ","n","e","t","w","o","r","k"," ","p","o","l","i","c","y",":"," ","'">>
            \o policy
            \o <<"'","."," ","A","l","l","o","w","e","d"," ","o","p","t","i","o","n","s"," ","a","r","e"," ","'","c","a","l","i","c","o","'"," ","a","n","d"," ","'","a","z","u","r","e","'">>,
          <<>>)

\* fmt.Errorf("failed to create or update managed cluster, %#+v", err)
failedToCreateOrUpdate(err) ==
    Error("*errors.errorString", 0,
          <<"f","a","i","l","e","d"," ","t","o"," ","c","r","e","a","t","e"," ","o","r"," ","u","p","d","a","t","e"," ","m","a","n","a","g","e","d"," ","c","l","u","s","t","e","r",","," ">>
            \o GoSyntax(err),
          <<>>)

\* errors.Wrapf(err, "failed to delete managed cluster %s in resource group %s", name, group)
failedToDelete(err, name, group) ==
    Error("*errors.withStack", 0,
          <<"f","a","i","l","e","d"," ","t","o"," ","d","e","l","e","t","e"," ","m","a","n","a","g","e","d"," ","c","l","u","s","t","e","r"," ">>
            \o name
            \o <<" ","i","n"," ","r","e","s","o","u","r","c","e"," ","g","r","o","u","p"," ">>
            \o group \o <<":"," ">> \o err.msg,
          <<err>>)

----------------------------------------------------------------------------
(* The derivation of the provider resource inside Reconcile                *)

defaultUser == "azureuser"
managedIdentity == "msi"

\* constants of the containerservice SDK used by the code
SystemAssigned == "SystemAssigned"
Azure == "azure"
Standard == "standard"
NetworkPolicyAzure == "azure"
NetworkPolicyCalico == "calico"
VirtualMachineScaleSets == "VirtualMachineScaleSets"

RECURSIVE RangePools(_, _, _, _, _)
\* the loop over AgentPools.  `pool` is the loop variable: one cell for the
\* whole loop (address 1), or a fresh cell per iteration (address i) when the
\* build gives range loops per-iteration variables.  Name, OsDiskSizeGB and
\* Count of a profile are addresses into the cell; VMSize is copied.
RangePools(pools, i, perIteration, heap, profiles) ==
    IF i > Len(pools) THEN [heap |-> heap, profiles |-> profiles]
    ELSE LET addr  == IF perIteration THEN i ELSE 1
             heap2 == [a \in DOMAIN heap \cup {addr} |->
                          IF a = addr THEN pools[i] ELSE heap[a]]
             profile == [Name         |-> addr,
                         VMSize       |-> heap2[addr].SKU,
                         OsDiskSizeGB |-> addr,
                         Count        |-> addr,
                         Type         |-> VirtualMachineScaleSets]
         IN  RangePools(pools, i + 1, perIteration, heap2, Append(profiles, profile))

\* the profiles with their pointers followed
Dereferenced(r) ==
    [i \in 1..Len(r.profiles) |->
        [Name         |-> r.heap[r.profiles[i].Name].Name,
         VMSize       |-> r.profiles[i].VMSize,
         OsDiskSizeGB |-> r.heap[r.profiles[i].OsDiskSizeGB].OSDiskSizeGB,
         Count        |-> r.heap[r.profiles[i].Count].Replicas,
         Type         |-> r.profiles[i].Type]]

\* AgentPoolProfiles as the provider client reads them through the pointers
AgentPoolProfiles(pools, perIteration) ==
    Dereferenced(RangePools(pools, 1, perIteration, <<>>, <<>>))

\* lines 103-130
InitialProperties(spec) ==
    [IdentityType      |-> SystemAssigned,
     Location          |-> spec.Location,
     DNSPrefix         |-> spec.Name,
     KubernetesVersion |-> spec.Version,
     AdminUsername     |-> defaultUser,
     KeyData           |-> spec.SSHPublicKey,
     ClientID          |-> managedIdentity,
     AgentPoolProfiles |-> <<>>,
     NetworkProfile    |-> [NetworkPlugin   |-> Azure,
                            LoadBalancerSku |-> Standard,
                            NetworkPolicy   |-> "",
                            PodCidr         |-> <<>>,
                            ServiceCidr     |-> <<>>,
                            DNSServiceIP    |-> <<>>]]

\* variant: the NetworkPlugin of the specification is not applied
WithPluginIgnored(spec, p) ==
    IF spec.PodCIDR # ""
    THEN [p EXCEPT !.NetworkProfile.PodCidr = <<spec.PodCIDR>>]
    ELSE p

\* lines 132-138
WithPluginAndPodCidr(spec, p) ==
    LET p1 == IF spec.NetworkPlugin # <<>>
              THEN [p EXCEPT !.NetworkProfile.NetworkPlugin = spec.NetworkPlugin[1]]
              ELSE p
    IN  IF spec.PodCIDR # ""
        THEN [p1 EXCEPT !.NetworkProfile.PodCidr = <<spec.PodCIDR>>]
        ELSE p1

\* variant: the DNS address is taken from the network, not from the address
\* as written
DNSServiceIPFromNetwork(p, r) ==
    IF r.err # <<>>
    THEN [err |-> <<failedToParseServiceCidr(r.err[1])>>, properties |-> p]
    ELSE [err |-> <<>>,
          properties |-> [p EXCEPT !.NetworkProfile.DNSServiceIP =
                                      <<String(SetBytes(IF Len(r.net.IP) = IPv4len
                                                        THEN v4InV6Prefix \o r.net.IP
                                                        ELSE r.net.IP,
                                                        15, <<10>>))>>]]

\* lines 143-152, r being the result of net.ParseCIDR
DNSServiceIPFrom(p, r) ==
    IF r.err # <<>>
    THEN [err |-> <<failedToParseServiceCidr(r.err[1])>>, properties |-> p]
    ELSE [err |-> <<>>,
          properties |-> [p EXCEPT !.NetworkProfile.DNSServiceIP =
                                      <<String(SetBytes(r.ip, 15, <<10>>))>>]]

\* lines 140-154: the early return is err # <<>>
WithServiceCidr(spec, p) ==
    IF spec.ServiceCIDR # <<>>
    THEN DNSServiceIPFrom([p EXCEPT !.NetworkProfile.ServiceCidr = <<spec.ServiceCIDR>>],
                          ParseCIDR(spec.ServiceCIDR))
    ELSE [err |-> <<>>, properties |-> p]

\* variant: an unknown policy is left unset instead of rejected
WithNetworkPolicyUnchecked(spec, p) ==
    IF spec.NetworkPolicy # <<>>
    THEN IF EqualFold(spec.NetworkPolicy[1], <<"A","z","u","r","e">>)
         THEN [err |-> <<>>,
               properties |-> [p EXCEPT !.NetworkProfile.NetworkPolicy = NetworkPolicyAzure]]
         ELSE IF EqualFold(spec.NetworkPolicy[1], <<"C","a","l","i","c","o">>)
         THEN [err |-> <<>>,
               properties |-> [p EXCEPT !.NetworkProfile.NetworkPolicy = NetworkPolicyCalico]]
         ELSE [err |-> <<>>, properties |-> p]
    ELSE [err |-> <<>>, properties |-> p]

\* variant: the policy is compared with == instead of strings.EqualFold
WithNetworkPolicyExact(spec, p) ==
    IF spec.NetworkPolicy # <<>>
    THEN IF spec.NetworkPolicy[1] = <<"A","z","u","r","e">>
         THEN [err |-> <<>>,
               properties |-> [p EXCEPT !.NetworkProfile.NetworkPolicy = NetworkPolicyAzure]]
         ELSE IF spec.NetworkPolicy[1] = <<"C","a","l","i","c","o">>
         THEN [err |-> <<>>,
               properties |-> [p EXCEPT !.NetworkProfile.NetworkPolicy = NetworkPolicyCalico]]
         ELSE [err |-> <<invalidNetworkPolicy(spec.NetworkPolicy[1])>>, properties |-> p]
    ELSE [err |-> <<>>, properties |-> p]

\* lines 156-164: the early return is err # <<>>
WithNetworkPolicy(spec, p) ==
    IF spec.NetworkPolicy # <<>>
    THEN IF EqualFold(spec.NetworkPolicy[1], <<"A","z","u","r","e">>)
         THEN [err |-> <<>>,
               properties |-> [p EXCEPT !.NetworkProfile.NetworkPolicy = NetworkPolicyAzure]]
         ELSE IF EqualFold(spec.NetworkPolicy[1], <<"C","a","l","i","c","o">>)
         THEN [err |-> <<>>,
               properties |-> [p EXCEPT !.NetworkProfile.NetworkPolicy = NetworkPolicyCalico]]
         ELSE [err |-> <<invalidNetworkPolicy(spec.NetworkPolicy[1])>>, properties |-> p]
    ELSE [err |-> <<>>, properties |-> p]

\* lines 166-179
WithSkuAndPools(spec, p, perIteration) ==
    LET p1 == IF spec.LoadBalancerSKU # <<>>
              THEN [p EXCEPT !.NetworkProfile.LoadBalancerSku = spec.LoadBalancerSKU[1]]
              ELSE p
    IN  [p1 EXCEPT !.AgentPoolProfiles = AgentPoolProfiles(spec.AgentPools, perIteration)]

\* lines 166-179, b being the outcome of the network policy step
AfterNetworkPolicy(spec, perIteration, b) ==
    IF b.err # <<>> THEN b
    ELSE [err |-> <<>>,
          properties |-> WithSkuAndPools(spec, b.properties, perIteration)]

\* lines 156-179, a being the outcome of the service CIDR step
AfterServiceCidr(spec, perIteration, a) ==
    IF a.err # <<>> THEN a
    ELSE AfterNetworkPolicy(spec, perIteration, WithNetworkPolicy(spec, a.properties))

\* lines 103-179 of Reconcile: the resource to submit, or the error returned
\* before anything is submitted
BuildProperties(spec, perIteration) ==
    AfterServiceCidr(spec, perIteration,
                     WithServiceCidr(spec, WithPluginAndPodCidr(spec, InitialProperties(spec))))

----------------------------------------------------------------------------
(* The provider client (Service.Client), an external collaborator          *)

\* how one outbound call ends: the error it returns, and whether the provider
\* carried the request out (a call cut short by cancellation or a deadline may
\* or may not have taken effect)
Answer(err, applied) == [err |-> err, applied |-> applied]

WriteAnswers ==
    {Answer(<<>>, TRUE), Answer(<<NotFound>>, FALSE), Answer(<<Conflict>>, FALSE)}
        \cup {Answer(<<e>>, b) : e \in {Canceled, DeadlineExceeded}, b \in BOOLEAN}

\* "resource not found" is answered only for a resource that does not exist
DeleteAnswers(prov, group, name) ==
    {Answer(<<>>, TRUE), Answer(<<Conflict>>, FALSE)}
        \cup {Answer(<<e>>, b) : e \in {Canceled, DeadlineExceeded}, b \in BOOLEAN}
        \cup (IF prov[<<group, name>>] = <<>> THEN {Answer(<<NotFound>>, FALSE)} ELSE {})

ReadAnswers ==
    {Answer(<<>>, FALSE), Answer(<<Conflict>>, FALSE),
     Answer(<<Canceled>>, FALSE), Answer(<<DeadlineExceeded>>, FALSE)}

ClientCreateOrUpdate(prov, group, name, resource, ans) ==
    [err      |-> ans.err,
     provider |-> IF ans.applied THEN [prov EXCEPT ![<<group, name>>] = <<resource>>]
                  ELSE prov]

ClientDelete(prov, group, name, ans) ==
    [err      |-> ans.err,
     provider |-> IF ans.applied THEN [prov EXCEPT ![<<group, name>>] = <<>>]
                  ELSE prov]

ClientGet(prov, group, name, ans) ==
    IF ans.err # <<>> THEN [result |-> <<>>, err |-> ans.err]
    ELSE IF prov[<<group, name>>] = <<>> THEN [result |-> <<>>, err |-> <<NotFound>>]
    ELSE [result |-> prov[<<group, name>>], err |-> <<>>]

kubeconfigFor == <<"k","u","b","e","c","o","n","f","i","g"," ","f","o","r"," ">>

ClientGetCredentials(prov, group, name, ans) ==
    IF ans.err # <<>> THEN [result |-> <<>>, err |-> ans.err]
    ELSE IF prov[<<group, name>>] = <<>> THEN [result |-> <<>>, err |-> <<NotFound>>]
    ELSE [result |-> <<kubeconfigFor \o group \o <<"/">> \o name>>, err |-> <<>>]

\* the record of one outbound call and of the error it returned
Invocation(method, group, name, resource, err) ==
    [method |-> method, group |-> group, name |-> name, resource |-> resource,
     err |-> err]

----------------------------------------------------------------------------
(* Inputs                                                                  *)

MaxPools == 2

Names == {<<"c","1">>, <<"c","2">>}
ResourceGroups == {<<"r","g">>}
Keys == ResourceGroups \X Names

PoolSpecs ==
    {[Name |-> "pool-a", SKU |-> "Standard_D2s_v3", Replicas |-> 1, OSDiskSizeGB |-> 30],
     [Name |-> "pool-b", SKU |-> "Standard_D4s_v3", Replicas |-> 2, OSDiskSizeGB |-> 60],
     [Name |-> "pool-a", SKU |-> "Standard_D2s_v3", Replicas |-> 3, OSDiskSizeGB |-> 30]}

PoolLists == UNION {[1..k -> PoolSpecs] : k \in 0..MaxPools}

cidr_10_96_0_0_12  == <<"1","0",".","9","6",".","0",".","0","/","1","2">>
cidr_10_96_5_7_12  == <<"1","0",".","9","6",".","5",".","7","/","1","2">>
cidr_10_0_0_0_24   == <<"1","0",".","0",".","0",".","0","/","2","4">>
cidr_10_0_0_16_28  == <<"1","0",".","0",".","0",".","1","6","/","2","8">>
cidr_10_0_0_0_28   == <<"1","0",".","0",".","0",".","0","/","2","8">>
cidr_10_0_0_0_30   == <<"1","0",".","0",".","0",".","0","/","3","0">>
cidr_192_168_0_0_16 == <<"1","9","2",".","1","6","8",".","0",".","0","/","1","6">>
cidr_fd00_108      == <<"f","d","0","0",":",":","/","1","0","8">>
cidr_fd00_10_124   == <<"f","d","0","0",":",":","1","0","/","1","2","4">>
cidr_not_a_cidr    == <<"n","o","t","-","a","-","c","i","d","r">>
cidr_no_mask       == <<"1","0",".","0",".","0",".","0">>
cidr_three_octets  == <<"1","0",".","0",".","0","/","8">>
cidr_mask_33       == <<"1","0",".","0",".","0",".","0","/","3","3">>
cidr_octet_256     == <<"1","0",".","0",".","0",".","2","5","6","/","2","4">>

ValidCIDRs ==
    {cidr_10_96_0_0_12, cidr_10_96_5_7_12, cidr_10_0_0_0_24, cidr_10_0_0_16_28,
     cidr_10_0_0_0_28, cidr_10_0_0_0_30, cidr_192_168_0_0_16, cidr_fd00_108,
     cidr_fd00_10_124}
InvalidCIDRs ==
    {cidr_not_a_cidr, cidr_no_mask, cidr_three_octets, cidr_mask_33, cidr_octet_256}
ServiceCIDRs == {<<>>} \cup ValidCIDRs \cup InvalidCIDRs

policy_azure  == <<"a","z","u","r","e">>
policy_Azure  == <<"A","z","u","r","e">>
policy_AZURE  == <<"A","Z","U","R","E">>
policy_calico == <<"c","a","l","i","c","o">>
policy_Calico == <<"C","a","l","i","c","o">>
policy_weave  == <<"w","e","a","v","e">>
policy_azur   == <<"a","z","u","r">>
policy_empty  == <<>>

AzurePolicies  == {policy_azure, policy_Azure, policy_AZURE}
CalicoPolicies == {policy_calico, policy_Calico}
OtherPolicies  == {policy_weave, policy_azur, policy_empty}
NetworkPolicies == {<<>>} \cup {<<p>> : p \in AzurePolicies \cup CalicoPolicies \cup OtherPolicies}

NetworkPlugins   == {<<>>, <<"kubenet">>}
LoadBalancerSKUs == {<<>>, <<"basic">>}
PodCIDRs         == {"", "10.244.0.0/16"}

\* a value of type *Spec
NewSpec(name, group, sku, plugin, policy, pools, podCIDR, serviceCIDR) ==
    [Name            |-> name,
     ResourceGroup   |-> group,
     Location        |-> "westus2",
     Version         |-> "v1.17.4",
     LoadBalancerSKU |-> sku,
     NetworkPlugin   |-> plugin,
     NetworkPolicy   |-> policy,
     SSHPublicKey    |-> "ssh-rsa AAAA",
     AgentPools      |-> pools,
     PodCIDR         |-> podCIDR,
     ServiceCIDR     |-> serviceCIDR]

SpecType == "*managedclusters.Spec"
Arg(type, val) == [type |-> type, val |-> val]

poolA == CHOOSE p \in PoolSpecs : p.Name = "pool-a" /\ p.Replicas = 1
poolB == CHOOSE p \in PoolSpecs : p.Name = "pool-b"

\* the specifications the operations are driven with: plain, fully set,
\* and each way of failing validation
SpecsFor(name, group) ==
    {NewSpec(name, group, <<>>, <<>>, <<>>, <<poolA>>, "", <<>>),
     NewSpec(name, group, <<"basic">>, <<"kubenet">>, <<policy_Calico>>,
             <<poolA, poolB>>, "10.244.0.0/16", cidr_10_96_0_0_12),
     NewSpec(name, group, <<>>, <<>>, <<>>, <<poolA>>, "", cidr_not_a_cidr),
     NewSpec(name, group, <<"basic">>, <<>>, <<>>, <<poolB>>, "", cidr_mask_33),
     NewSpec(name, group, <<>>, <<"kubenet">>, <<policy_weave>>, <<poolA>>, "",
             cidr_10_96_0_0_12)}

SpecArgs == {Arg(SpecType, s) : s \in UNION {SpecsFor(k[2], k[1]) : k \in Keys}}

\* values that are not a *Spec: the nil interface and a string
OtherArgs == {Arg("nil", <<>>), Arg("string", <<"c","1">>)}

Args == SpecArgs \cup OtherArgs

\* every combination of the optional fields, for one cluster
DeriveArgs ==
    {Arg(SpecType, NewSpec(<<"c","1">>, <<"r","g">>, sku, plugin, policy, pools, pod, cidr)) :
        sku \in LoadBalancerSKUs, plugin \in NetworkPlugins, policy \in NetworkPolicies,
        pools \in PoolLists, pod \in PodCIDRs, cidr \in ServiceCIDRs}

----------------------------------------------------------------------------
(* State                                                                   *)

VARIABLES
    provider,              \* Keys -> <<>> (no such resource) or <<resource>>
    call,                  \* the last call of an operation and how it ended
    loopVarPerIteration    \* whether the build gives range loops per-iteration variables

vars == <<provider, call, loopVarPerIteration>>

Returned(op, arg, result, err, client, before) ==
    [op |-> op, arg |-> arg, result |-> result, err |-> err,
     client |-> client, before |-> before]

NoCall == Returned("none", Arg("nil", <<>>), <<>>, <<>>, <<>>, [k \in Keys |-> <<>>])

Init ==
    /\ provider = [k \in Keys |-> <<>>]
    /\ call = NoCall
    /\ loopVarPerIteration \in BOOLEAN

----------------------------------------------------------------------------
(* Operations                                                              *)

\* variant: the error of CreateOrUpdate is dropped
ReconcileReturnSwallowed(err) == <<>>

\* lines 182-186: what Reconcile returns for the error of CreateOrUpdate
ReconcileReturn(err) ==
    IF err # <<>> THEN <<failedToCreateOrUpdate(err[1])>> ELSE <<>>

\* variant: "resource not found" is not told apart from other errors
DeleteReturnNotFoundIsError(err, name, group) ==
    IF err # <<>> THEN <<failedToDelete(err[1], name, group)>> ELSE <<>>

\* lines 198-207: what Delete returns for the error of the client's Delete
DeleteReturn(err, name, group) ==
    IF err # <<>>
    THEN IF ResourceNotFound(err[1]) THEN <<>>
         ELSE <<failedToDelete(err[1], name, group)>>
    ELSE <<>>

\* variant: a value of the wrong type is answered with (nil, nil)
GetNilOnWrongType(arg, ans) ==
    /\ IF arg.type # SpecType
       THEN call' = Returned("Get", arg, <<>>, <<>>, <<>>, provider)
       ELSE LET managedClusterSpec == arg.val
                r == ClientGet(provider, managedClusterSpec.ResourceGroup,
                               managedClusterSpec.Name, ans)
            IN  call' = Returned("Get", arg, r.result, r.err,
                                 <<Invocation("Get", managedClusterSpec.ResourceGroup,
                                              managedClusterSpec.Name, <<>>, r.err)>>,
                                 provider)
    /\ UNCHANGED <<provider, loopVarPerIteration>>

\* lines 83-89
Get(arg, ans) ==
    /\ IF arg.type # SpecType
       THEN call' = Returned("Get", arg, <<>>, <<expectedSpecification>>, <<>>, provider)
       ELSE LET managedClusterSpec == arg.val
                r == ClientGet(provider, managedClusterSpec.ResourceGroup,
                               managedClusterSpec.Name, ans)
            IN  call' = Returned("Get", arg, r.result, r.err,
                                 <<Invocation("Get", managedClusterSpec.ResourceGroup,
                                              managedClusterSpec.Name, <<>>, r.err)>>,
                                 provider)
    /\ UNCHANGED <<provider, loopVarPerIteration>>

\* lines 92-94
GetCredentials(group, name, ans) ==
    /\ LET r == ClientGetCredentials(provider, group, name, ans)
       IN  call' = Returned("GetCredentials",
                            Arg("(string, string)", [ResourceGroup |-> group, Name |-> name]),
                            r.result, r.err,
                            <<Invocation("GetCredentials", group, name, <<>>, r.err)>>,
                            provider)
    /\ UNCHANGED <<provider, loopVarPerIteration>>

\* lines 181-187: the resource is built, CreateOrUpdate answers r
ReconcileSubmit(arg, properties, r) ==
    /\ provider' = r.provider
    /\ call' = Returned("Reconcile", arg, <<>>, ReconcileReturn(r.err),
                        <<Invocation("CreateOrUpdate", arg.val.ResourceGroup,
                                     arg.val.Name, <<properties>>, r.err)>>,
                        provider)

\* lines 97-187
Reconcile(arg, ans) ==
    /\ IF arg.type # SpecType
       THEN /\ call' = Returned("Reconcile", arg, <<>>, <<expectedSpecification>>, <<>>,
                                provider)
            /\ UNCHANGED provider
       ELSE \E b \in {BuildProperties(arg.val, loopVarPerIteration)} :
               IF b.err # <<>>
               THEN /\ call' = Returned("Reconcile", arg, <<>>, b.err, <<>>, provider)
                    /\ UNCHANGED provider
               ELSE ReconcileSubmit(arg, b.properties,
                                    ClientCreateOrUpdate(provider, arg.val.ResourceGroup,
                                                         arg.val.Name, b.properties, ans))
    /\ UNCHANGED loopVarPerIteration

\* lines 190-208
Delete(arg, ans) ==
    /\ IF arg.type # SpecType
       THEN /\ call' = Returned("Delete", arg, <<>>, <<expectedSpecification>>, <<>>,
                                provider)
            /\ UNCHANGED provider
       ELSE LET managedClusterSpec == arg.val
                r == ClientDelete(provider, managedClusterSpec.ResourceGroup,
                                  managedClusterSpec.Name, ans)
                inv == Invocation("Delete", managedClusterSpec.ResourceGroup,
                                  managedClusterSpec.Name, <<>>, r.err)
                err == DeleteReturn(r.err, managedClusterSpec.Name,
                                    managedClusterSpec.ResourceGroup)
            IN  /\ provider' = r.provider
                /\ call' = Returned("Delete", arg, <<>>, err, <<inv>>, provider)
    /\ UNCHANGED loopVarPerIteration

DoGet == \E arg \in Args, ans \in ReadAnswers : Get(arg, ans)

DoGetCredentials ==
    \E group \in ResourceGroups, name \in Names, ans \in ReadAnswers :
        GetCredentials(group, name, ans)

DoReconcile == \E arg \in Args, ans \in WriteAnswers : Reconcile(arg, ans)

DoDelete ==
    \E arg \in Args :
        \E ans \in (IF arg.type = SpecType
                    THEN DeleteAnswers(provider, arg.val.ResourceGroup, arg.val.Name)
                    ELSE {Answer(<<>>, TRUE)}) :
            Delete(arg, ans)

Next == DoGet \/ DoGetCredentials \/ DoReconcile \/ DoDelete

Spec == Init /\ [][Next]_vars

----------------------------------------------------------------------------
(* The derivation alone: one Reconcile of each combination of the optional *)
(* fields, against a provider that holds nothing                           *)

Pending(arg) == Returned("pending", arg, <<>>, <<>>, <<>>, [k \in Keys |-> <<>>])

InitDerive ==
    /\ provider = [k \in Keys |-> <<>>]
    /\ \E arg \in DeriveArgs : call = Pending(arg)
    /\ loopVarPerIteration \in BOOLEAN

ReconcilePending ==
    /\ call.op = "pending"
    /\ \E ans \in {Answer(<<>>, TRUE), Answer(<<Conflict>>, FALSE)} : Reconcile(call.arg, ans)

NextDerive == ReconcilePending

SpecDerive == InitDerive /\ [][NextDerive]_vars

----------------------------------------------------------------------------
(* Properties                                                              *)

\* the last call is `op`, made with a *Spec
SpecCall(op) == call.op = op /\ call.arg.type = SpecType
\* the resource the last call is about
CallKey == <<call.arg.val.ResourceGroup, call.arg.val.Name>>
\* the last call is a Reconcile that reached CreateOrUpdate
Submitted == call.op = "Reconcile" /\ Len(call.client) = 1
SubmittedResource == call.client[1].resource[1]

\* net.ParseIP: the address a text denotes, in 16-byte form
ParseIP(s) == LET a == parseIPv4(s) IN IF a # NilIP THEN a ELSE parseIPv6(s)
\* IP.To16
To16(ip) == IF Len(ip) = IPv4len THEN v4InV6Prefix \o ip ELSE ip
\* IPNet.Contains
NetContains(n, ip) ==
    LET x == IF To4(ip) # NilIP /\ Len(n.IP) = IPv4len THEN To4(ip) ELSE ip
    IN  /\ Len(x) = Len(n.IP)
        /\ \A k \in 1..Len(x) : BitAnd(n.IP[k], n.Mask[k], 8) = BitAnd(x[k], n.Mask[k], 8)
\* the text of a CIDR before the slash
AddressPart(cidr) == SubSeq(cidr, 1, IndexByteString(cidr, "/"))

\* C1: after a Reconcile that returned success the resource exists and is
\* exactly the resource derived from the specification of that call, whatever
\* was there before (so repeating the call changes nothing); after a Delete
\* that returned success the resource does not exist; no other resource is
\* touched, and a resource is only ever absent or present.
C1_StateMachine ==
    /\ (call.op = "Reconcile" /\ call.err = <<>>) =>
          /\ call.arg.type = SpecType
          /\ provider[CallKey] =
                <<BuildProperties(call.arg.val, loopVarPerIteration).properties>>
          /\ provider[CallKey] = call.client[1].resource
          /\ provider[CallKey][1].DNSPrefix = call.arg.val.Name
          /\ \A k \in Keys \ {CallKey} : provider[k] = call.before[k]
    /\ (call.op = "Delete" /\ call.err = <<>>) =>
          /\ call.arg.type = SpecType
          /\ provider[CallKey] = <<>>
          /\ \A k \in Keys \ {CallKey} : provider[k] = call.before[k]
    /\ \A k \in Keys : Len(provider[k]) \in {0, 1}

\* a successful Reconcile over a resource that existed and was different
C1_Overwritten ==
    /\ SpecCall("Reconcile") /\ call.err = <<>>
    /\ call.before[CallKey] # <<>>
    /\ call.before[CallKey] # provider[CallKey]

\* C2: a Delete with a *Spec returns success exactly when the client's Delete
\* succeeded or answered "resource not found"; otherwise it returns an error
\* that wraps the client's error and names the cluster and the resource group.
C2_DeleteResult ==
    SpecCall("Delete") =>
        LET e == call.client[1].err
        IN  /\ Len(call.client) = 1
            /\ call.err = <<>> <=> (e = <<>> \/ e = <<NotFound>>)
            /\ call.err # <<>> =>
                  /\ Is(call.err[1], e[1])
                  /\ call.err[1] # e[1]
                  /\ Contains(call.err[1].msg, call.arg.val.Name)
                  /\ Contains(call.err[1].msg, call.arg.val.ResourceGroup)

\* a Delete of a resource that does not exist, answered "not found", succeeded
C2_NotFoundIsSuccess ==
    /\ SpecCall("Delete")
    /\ call.client[1].err = <<NotFound>>
    /\ call.err = <<>>

\* the serviceCIDR or the networkPolicy of a specification fails validation
FailsValidation(spec) ==
    \/ spec.ServiceCIDR \in InvalidCIDRs
    \/ spec.NetworkPolicy # <<>> /\ spec.NetworkPolicy[1] \in OtherPolicies

\* C3: a Reconcile whose specification fails validation returns an error,
\* makes no call on the client and leaves every resource as it was.
C3_RejectedBeforeClient ==
    (SpecCall("Reconcile") /\ FailsValidation(call.arg.val)) =>
        /\ call.err # <<>>
        /\ call.client = <<>>
        /\ provider = call.before

\* an unknown policy next to a valid serviceCIDR was rejected while the
\* resource existed
C3_RejectedWhilePresent ==
    /\ SpecCall("Reconcile")
    /\ call.arg.val.ServiceCIDR \in ValidCIDRs
    /\ call.arg.val.NetworkPolicy = <<policy_weave>>
    /\ call.err # <<>>
    /\ call.before[CallKey] # <<>>

\* C4 as stated: each of the four operations, called with a value that is not
\* a *Spec, returns an error and makes no call on the client.
C4_AllFourRejectWrongType ==
    (call.op \in {"Get", "GetCredentials", "Reconcile", "Delete"}
        /\ call.arg.type # SpecType) =>
        /\ call.err # <<>>
        /\ call.client = <<>>

\* C4: Get, Reconcile and Delete, called with a value that is not a *Spec,
\* return the error "expected managed cluster specification", make no call on
\* the client and change nothing; GetCredentials takes a group and a name,
\* checks no type and always calls the client.
C4_WrongTypeRejected ==
    /\ (call.op \in {"Get", "Reconcile", "Delete"} /\ call.arg.type # SpecType) =>
          /\ call.err = <<expectedSpecification>>
          /\ call.client = <<>>
          /\ provider = call.before
    /\ call.op = "GetCredentials" =>
          /\ Len(call.client) = 1
          /\ call.client[1].method = "GetCredentials"

\* Reconcile was called with a string while a resource existed
C4_StringRejected ==
    /\ call.op = "Reconcile"
    /\ call.arg.type = "string"
    /\ call.err # <<>>
    /\ \E k \in Keys : provider[k] # <<>>

\* C5: when the client's call failed with context.Canceled or
\* context.DeadlineExceeded the returned error has that error as a cause, and
\* an error of the client becomes success only for "not found" in Delete.
C5_CancellationPropagated ==
    \A i \in 1..Len(call.client) :
        LET e == call.client[i].err
        IN  e # <<>> =>
              /\ e[1] \in {Canceled, DeadlineExceeded} =>
                    call.err # <<>> /\ Is(call.err[1], e[1])
              /\ call.err = <<>> => call.op = "Delete" /\ e = <<NotFound>>

\* C6: the submitted resource has one pool profile per PoolSpec, in order,
\* the i-th carrying the name, SKU, disk size and replicas of the i-th
\* PoolSpec and the scale-set pool type.
C6_PoolProfilesMatch ==
    Submitted =>
        LET pools == call.arg.val.AgentPools
            profiles == SubmittedResource.AgentPoolProfiles
        IN  /\ Len(profiles) = Len(pools)
            /\ \A i \in 1..Len(pools) :
                  profiles[i] = [Name         |-> pools[i].Name,
                                 VMSize       |-> pools[i].SKU,
                                 OsDiskSizeGB |-> pools[i].OSDiskSizeGB,
                                 Count        |-> pools[i].Replicas,
                                 Type         |-> "VirtualMachineScaleSets"]

\* C7 as stated: the submitted resource carries the serviceCIDR verbatim and,
\* as DNS service IP, the first address of the parsed network with its last
\* byte set to 10; with an empty serviceCIDR it carries neither.
C7_DNSFromNetworkAddress ==
    Submitted =>
        LET cidr == call.arg.val.ServiceCIDR
            np   == SubmittedResource.NetworkProfile
        IN  IF cidr = <<>>
            THEN np.ServiceCidr = <<>> /\ np.DNSServiceIP = <<>>
            ELSE /\ np.ServiceCidr = <<cidr>>
                 /\ Len(np.DNSServiceIP) = 1
                 /\ ParseIP(np.DNSServiceIP[1])
                       = SetBytes(To16(ParseCIDR(cidr).net.IP), 15, <<10>>)

\* C7: the submitted resource carries the serviceCIDR verbatim and, as DNS
\* service IP, the address written in the serviceCIDR (host bits kept) with
\* its last byte set to 10; with an empty serviceCIDR it carries neither.
C7_DNSFromWrittenAddress ==
    Submitted =>
        LET cidr == call.arg.val.ServiceCIDR
            np   == SubmittedResource.NetworkProfile
        IN  IF cidr = <<>>
            THEN np.ServiceCidr = <<>> /\ np.DNSServiceIP = <<>>
            ELSE /\ cidr \in ValidCIDRs
                 /\ np.ServiceCidr = <<cidr>>
                 /\ Len(np.DNSServiceIP) = 1
                 /\ LET dns == ParseIP(np.DNSServiceIP[1])
                        written == ParseIP(AddressPart(cidr))
                    IN  /\ Len(dns) = IPv6len
                        /\ dns[16] = 10
                        /\ \A k \in 1..15 : dns[k] = written[k]

\* 10.96.5.7/12 was submitted with the DNS service IP 10.96.5.10
C7_HostBitsKept ==
    /\ Submitted
    /\ call.arg.val.ServiceCIDR = cidr_10_96_5_7_12
    /\ SubmittedResource.NetworkProfile.DNSServiceIP
          = << <<"1","0",".","9","6",".","5",".","1","0">> >>

\* C8: the DNS service IP of a submitted resource lies inside the submitted
\* serviceCIDR and ends in 10.
C8_DNSInsideServiceCIDR ==
    (Submitted /\ call.arg.val.ServiceCIDR # <<>>) =>
        LET np  == SubmittedResource.NetworkProfile
            dns == ParseIP(np.DNSServiceIP[1])
        IN  /\ dns[16] = 10
            /\ NetContains(ParseCIDR(np.ServiceCidr[1]).net, dns)

NamesAllowedValues(msg) ==
    /\ Contains(msg, <<"'","c","a","l","i","c","o","'">>)
    /\ Contains(msg, <<"'","a","z","u","r","e","'">>)

============================================================================
